---- MODULE Spec2Model ----
(***************************************************************************)
(* A model of package seq (src/seq.go): generic helpers over Go slices.    *)
(*                                                                         *)
(* A Go slice is a descriptor (backing array, offset, length, capacity);   *)
(* the backing arrays live in `heap`.  One call of one function of the     *)
(* package is modelled: the caller's arguments are drawn in Init, the      *)
(* function runs (Chunk one loop iteration per step, the others in one     *)
(* step), and after it returned the caller may overwrite an element of, or *)
(* append to, a slice it got back.  Every call of a caller-supplied        *)
(* callback is recorded in `calls`.                                        *)
(*                                                                         *)
(* Go's int is modelled IntBits wide (two's complement, wrapping), and a   *)
(* slice is at most MaxLen long; on the real machine both are larger by    *)
(* the same reasoning (a slice's length is at most the largest int).       *)
(***************************************************************************)
EXTENDS Integers, Sequences, FiniteSets, TLC

VARIABLES heap, op, arg, snapshot, pc, i, chunks, ret, calls

vars == <<heap, op, arg, snapshot, pc, i, chunks, ret, calls>>

(***************************************************************************)
(* Bounds of the model.                                                    *)
(***************************************************************************)
MaxLen == 5
IntBits == 4
MaxInner == 2
MaxInnerLen == 2

Values == {1, 2, 3}
Keys == {"a", "b"}
Results == {10, 20}
Weights == {1, 2, 3}
Inits == {0, 1}
Combines == {"sum", "horner"}

(***************************************************************************)
(* Go's int: two's complement, IntBits wide; + wraps around.               *)
(***************************************************************************)
MaxInt == 2 ^ (IntBits - 1) - 1
MinInt == -(2 ^ (IntBits - 1))
Wrap(x) == ((x - MinInt) % (2 ^ IntBits)) + MinInt
IntMin(a, b) == IF a < b THEN a ELSE b
LenBound == IntMin(MaxLen, MaxInt)
MaxSteps == LenBound + 2

(***************************************************************************)
(* Slices and their backing arrays.  Go indexes from 0, TLA+ from 1.       *)
(***************************************************************************)
Zero == 0
NilSlice == [arr |-> 0, off |-> 0, len |-> 0, cap |-> 0]
At(h, s, j) == h[s.arr][s.off + j + 1]
Elems(h, s) == [j \in 1..s.len |-> h[s.arr][s.off + j]]

\* make([]T, 0, c): a fresh backing array of c zero values.
Make(h, c) ==
  [h |-> Append(h, [j \in 1..c |-> Zero]),
   s |-> [arr |-> Len(h) + 1, off |-> 0, len |-> 0, cap |-> c]]

\* The capacity append gives a slice that has to grow: what is needed, or
\* twice the old capacity when that is more (the runtime may round it up; the
\* spare cells belong to the fresh array either way).
GrowCap(old, need) == IF need > 2 * old THEN need ELSE 2 * old

\* append(s, v): in place when the capacity allows, else into a fresh array.
AppendOne(h, s, v) ==
  IF s.len < s.cap
  THEN [h |-> [h EXCEPT ![s.arr][s.off + s.len + 1] = v],
        s |-> [s EXCEPT !.len = @ + 1]]
  ELSE LET c == GrowCap(s.cap, s.len + 1)
           a == [j \in 1..c |-> IF j <= s.len THEN h[s.arr][s.off + j]
                                 ELSE IF j = s.len + 1 THEN v ELSE Zero]
       IN [h |-> Append(h, a),
           s |-> [arr |-> Len(h) + 1, off |-> 0, len |-> s.len + 1, cap |-> c]]

\* s[lo:hi]: the bounds the runtime checks, and the slice when they hold.
SliceInRange(s, lo, hi) == 0 <= lo /\ lo <= hi /\ hi <= s.cap
SubSlice(s, lo, hi) ==
  [arr |-> s.arr, off |-> s.off + lo, len |-> hi - lo, cap |-> s.cap - lo]

\* One call of a callback: its name, its arguments, and the positions in the
\* input of the arguments that are elements of it.
Call(fn, args, at) == [fn |-> fn, args |-> args, at |-> at]

NoRet == [slices |-> <<>>, groups |-> <<>>, vals |-> <<>>]

(***************************************************************************)
(* Filter                                                                  *)
(***************************************************************************)
RECURSIVE FilterFrom(_, _, _, _)
FilterFrom(st, slice, keep, j) ==
  IF j >= slice.len THEN st
  ELSE LET v == At(st.h, slice, j)
           nx == IF keep[v] THEN AppendOne(st.h, st.out, v)
                 ELSE [h |-> st.h, s |-> st.out]
       IN FilterFrom([h |-> nx.h, out |-> nx.s,
                      calls |-> Append(st.calls, Call("keep", <<v>>, <<j>>))],
                     slice, keep, j + 1)

Filter(h, slice, keep) ==
  LET m == Make(h, slice.len)
  IN FilterFrom([h |-> m.h, out |-> m.s, calls |-> <<>>], slice, keep, 0)

(***************************************************************************)
(* Map                                                                     *)
(***************************************************************************)
RECURSIVE MapFrom(_, _, _, _)
MapFrom(st, slice, f, j) ==
  IF j >= slice.len THEN st
  ELSE LET v == At(st.h, slice, j)
           nx == AppendOne(st.h, st.out, f[v])
       IN MapFrom([h |-> nx.h, out |-> nx.s,
                   calls |-> Append(st.calls, Call("f", <<v>>, <<j>>))],
                  slice, f, j + 1)

Map(h, slice, f) ==
  LET m == Make(h, slice.len)
  IN MapFrom([h |-> m.h, out |-> m.s, calls |-> <<>>], slice, f, 0)

(***************************************************************************)
(* Reduce                                                                  *)
(***************************************************************************)
Combine(f, acc, v) == IF f = "sum" THEN acc + v ELSE 2 * acc + v

RECURSIVE ReduceFrom(_, _, _, _, _)
ReduceFrom(st, h, slice, f, j) ==
  IF j >= slice.len THEN st
  ELSE LET v == At(h, slice, j)
       IN ReduceFrom([acc |-> Combine(f, st.acc, v),
                      calls |-> Append(st.calls, Call("f", <<st.acc, v>>, <<j>>))],
                     h, slice, f, j + 1)

Reduce(h, slice, init, f) ==
  ReduceFrom([acc |-> init, calls |-> <<>>], h, slice, f, 0)

(***************************************************************************)
(* LastIndex                                                               *)
(***************************************************************************)
RECURSIVE LastIndexFrom(_, _, _, _)
LastIndexFrom(h, slice, v, j) ==
  IF j < 0 THEN <<-1, FALSE>>
  ELSE IF At(h, slice, j) = v THEN <<j, TRUE>>
  ELSE LastIndexFrom(h, slice, v, j - 1)

\* LastIndex scanning from the front: the first occurrence.
RECURSIVE FirstIndexFrom(_, _, _, _)
FirstIndexFrom(h, slice, v, j) ==
  IF j >= slice.len THEN <<-1, FALSE>>
  ELSE IF At(h, slice, j) = v THEN <<j, TRUE>>
  ELSE FirstIndexFrom(h, slice, v, j + 1)

LastIndexScanningForward(h, slice, v) == FirstIndexFrom(h, slice, v, 0)

LastIndex(h, slice, v) == LastIndexFrom(h, slice, v, slice.len - 1)

(***************************************************************************)
(* Partition                                                               *)
(***************************************************************************)
\* Partition appending to matches in both branches.
RECURSIVE PartitionFromOneBranch(_, _, _, _)
PartitionFromOneBranch(st, slice, pred, j) ==
  IF j >= slice.len THEN st
  ELSE LET v == At(st.h, slice, j)
           c == Append(st.calls, Call("pred", <<v>>, <<j>>))
           nx == AppendOne(st.h, st.matches, v)
       IN PartitionFromOneBranch([st EXCEPT !.h = nx.h, !.matches = nx.s, !.calls = c],
                                 slice, pred, j + 1)

RECURSIVE PartitionFrom(_, _, _, _)
PartitionFrom(st, slice, pred, j) ==
  IF j >= slice.len THEN st
  ELSE LET v == At(st.h, slice, j)
           c == Append(st.calls, Call("pred", <<v>>, <<j>>))
       IN IF pred[v]
          THEN LET nx == AppendOne(st.h, st.matches, v)
               IN PartitionFrom([st EXCEPT !.h = nx.h, !.matches = nx.s, !.calls = c],
                                slice, pred, j + 1)
          ELSE LET nx == AppendOne(st.h, st.nonMatches, v)
               IN PartitionFrom([st EXCEPT !.h = nx.h, !.nonMatches = nx.s, !.calls = c],
                                slice, pred, j + 1)

Partition(h, slice, pred) ==
  LET m1 == Make(h, slice.len)
      m2 == Make(m1.h, slice.len)
  IN PartitionFrom([h |-> m2.h, matches |-> m1.s, nonMatches |-> m2.s, calls |-> <<>>],
                   slice, pred, 0)

(***************************************************************************)
(* GroupBy                                                                 *)
(***************************************************************************)
\* out[k] read as the nil slice whatever the map holds.
LookupAlwaysNil(out, k) == NilSlice

\* out[k], the nil slice when the map holds no k.
Lookup(out, k) == IF k \in DOMAIN out THEN out[k] ELSE NilSlice
\* out[k] = s
Store(out, k, s) == IF k \in DOMAIN out THEN [out EXCEPT ![k] = s] ELSE (k :> s) @@ out

RECURSIVE GroupByFrom(_, _, _, _)
GroupByFrom(st, slice, keyFunc, j) ==
  IF j >= slice.len THEN st
  ELSE LET v == At(st.h, slice, j)
           k == keyFunc[v]
           nx == AppendOne(st.h, Lookup(st.out, k), v)
       IN GroupByFrom([h |-> nx.h, out |-> Store(st.out, k, nx.s),
                       calls |-> Append(st.calls, Call("keyFunc", <<v>>, <<j>>))],
                      slice, keyFunc, j + 1)

GroupBy(h, slice, keyFunc) ==
  GroupByFrom([h |-> h, out |-> <<>>, calls |-> <<>>], slice, keyFunc, 0)

(***************************************************************************)
(* Flatten                                                                 *)
(***************************************************************************)
\* append(s, xs...)
AppendAll(h, s, xs) ==
  LET n == Len(xs) IN
  IF s.len + n <= s.cap
  THEN [h |-> IF n = 0 THEN h
              ELSE [h EXCEPT ![s.arr] =
                      [j \in 1..Len(@) |->
                         IF j > s.off + s.len /\ j <= s.off + s.len + n
                         THEN xs[j - s.off - s.len] ELSE @[j]]],
        s |-> [s EXCEPT !.len = @ + n]]
  ELSE LET c == GrowCap(s.cap, s.len + n)
           a == [j \in 1..c |-> IF j <= s.len THEN h[s.arr][s.off + j]
                                 ELSE IF j <= s.len + n THEN xs[j - s.len] ELSE Zero]
       IN [h |-> Append(h, a),
           s |-> [arr |-> Len(h) + 1, off |-> 0, len |-> s.len + n, cap |-> c]]

RECURSIVE FlattenFrom(_, _, _)
FlattenFrom(st, slices, j) ==
  IF j > Len(slices) THEN st
  ELSE LET nx == AppendAll(st.h, st.out, Elems(st.h, slices[j]))
       IN FlattenFrom([h |-> nx.h, out |-> nx.s], slices, j + 1)

Flatten(h, slices) == FlattenFrom([h |-> h, out |-> NilSlice], slices, 1)

(***************************************************************************)
(* Unique, UniqueBy                                                        *)
(***************************************************************************)
RECURSIVE UniqueFrom(_, _, _)
UniqueFrom(st, slice, j) ==
  IF j >= slice.len THEN st
  ELSE LET item == At(st.h, slice, j)
       IN IF item \notin st.seen
          THEN LET nx == AppendOne(st.h, st.unique, item)
               IN UniqueFrom([h |-> nx.h, unique |-> nx.s, seen |-> st.seen \cup {item}],
                             slice, j + 1)
          ELSE UniqueFrom(st, slice, j + 1)

Unique(h, slice) ==
  LET m == Make(h, slice.len)
  IN UniqueFrom([h |-> m.h, unique |-> m.s, seen |-> {}], slice, 0)

\* UniqueBy remembering the item instead of its key.
RECURSIVE UniqueByFromSeenItem(_, _, _, _)
UniqueByFromSeenItem(st, slice, keyFunc, j) ==
  IF j >= slice.len THEN st
  ELSE LET item == At(st.h, slice, j)
           k == keyFunc[item]
           c == Append(st.calls, Call("keyFunc", <<item>>, <<j>>))
       IN IF item \notin st.seen
          THEN LET nx == AppendOne(st.h, st.unique, item)
               IN UniqueByFromSeenItem([h |-> nx.h, unique |-> nx.s,
                                        seen |-> st.seen \cup {item}, calls |-> c],
                                       slice, keyFunc, j + 1)
          ELSE UniqueByFromSeenItem([st EXCEPT !.calls = c], slice, keyFunc, j + 1)

RECURSIVE UniqueByFrom(_, _, _, _)
UniqueByFrom(st, slice, keyFunc, j) ==
  IF j >= slice.len THEN st
  ELSE LET item == At(st.h, slice, j)
           k == keyFunc[item]
           c == Append(st.calls, Call("keyFunc", <<item>>, <<j>>))
       IN IF k \notin st.seen
          THEN LET nx == AppendOne(st.h, st.unique, item)
               IN UniqueByFrom([h |-> nx.h, unique |-> nx.s,
                                seen |-> st.seen \cup {k}, calls |-> c],
                               slice, keyFunc, j + 1)
          ELSE UniqueByFrom([st EXCEPT !.calls = c], slice, keyFunc, j + 1)

UniqueBy(h, slice, keyFunc) ==
  LET m == Make(h, slice.len)
  IN UniqueByFrom([h |-> m.h, unique |-> m.s, seen |-> {}, calls |-> <<>>],
                  slice, keyFunc, 0)

(***************************************************************************)
(* MinMax: slices.Min and slices.Max, which panic on an empty slice.       *)
(***************************************************************************)
IntMax(a, b) == IF a > b THEN a ELSE b

RECURSIVE SlicesMinFrom(_, _, _, _)
SlicesMinFrom(m, h, x, j) ==
  IF j >= x.len THEN m ELSE SlicesMinFrom(IntMin(m, At(h, x, j)), h, x, j + 1)

SlicesMin(h, x) ==
  IF x.len < 1 THEN [panic |-> TRUE, val |-> Zero]
  ELSE [panic |-> FALSE, val |-> SlicesMinFrom(At(h, x, 0), h, x, 1)]

RECURSIVE SlicesMaxFrom(_, _, _, _)
SlicesMaxFrom(m, h, x, j) ==
  IF j >= x.len THEN m ELSE SlicesMaxFrom(IntMax(m, At(h, x, j)), h, x, j + 1)

SlicesMax(h, x) ==
  IF x.len < 1 THEN [panic |-> TRUE, val |-> Zero]
  ELSE [panic |-> FALSE, val |-> SlicesMaxFrom(At(h, x, 0), h, x, 1)]

\* MinMax answering an empty slice with the zero values.
MinMaxZeroOnEmpty(h, slice) ==
  IF slice.len < 1
  THEN [panic |-> FALSE, min |-> Zero, max |-> Zero]
  ELSE [panic |-> FALSE, min |-> SlicesMin(h, slice).val, max |-> SlicesMax(h, slice).val]

MinMax(h, slice) ==
  LET lo == SlicesMin(h, slice)
      hi == SlicesMax(h, slice)
  IN IF lo.panic \/ hi.panic
     THEN [panic |-> TRUE, min |-> Zero, max |-> Zero]
     ELSE [panic |-> FALSE, min |-> lo.val, max |-> hi.val]

(***************************************************************************)
(* MinMaxFunc: slices.MinFunc and slices.MaxFunc.  The comparator orders   *)
(* the elements by a weight, as cmp.Compare on a field does.               *)
(***************************************************************************)
Compare(a, b) == IF a < b THEN -1 ELSE IF a > b THEN 1 ELSE 0
Less(w, a, b) == Compare(w[a], w[b])

\* st.m is the extremum so far, st.at the position it was read from.
RECURSIVE SlicesMinFuncFrom(_, _, _, _, _)
SlicesMinFuncFrom(st, h, x, w, j) ==
  IF j >= x.len THEN st
  ELSE LET e == At(h, x, j)
           c == Append(st.calls, Call("less", <<e, st.m>>, <<j, st.at>>))
       IN IF Less(w, e, st.m) < 0
          THEN SlicesMinFuncFrom([m |-> e, at |-> j, calls |-> c], h, x, w, j + 1)
          ELSE SlicesMinFuncFrom([st EXCEPT !.calls = c], h, x, w, j + 1)

SlicesMinFunc(h, x, w, calls0) ==
  IF x.len < 1 THEN [panic |-> TRUE, val |-> Zero, calls |-> calls0]
  ELSE LET r == SlicesMinFuncFrom([m |-> At(h, x, 0), at |-> 0, calls |-> calls0],
                                  h, x, w, 1)
       IN [panic |-> FALSE, val |-> r.m, calls |-> r.calls]

\* slices.MaxFunc keeping the element that compares lower.
SlicesMaxFuncKeepingLower(h, x, w, calls0) == SlicesMinFunc(h, x, w, calls0)

RECURSIVE SlicesMaxFuncFrom(_, _, _, _, _)
SlicesMaxFuncFrom(st, h, x, w, j) ==
  IF j >= x.len THEN st
  ELSE LET e == At(h, x, j)
           c == Append(st.calls, Call("less", <<e, st.m>>, <<j, st.at>>))
       IN IF Less(w, e, st.m) > 0
          THEN SlicesMaxFuncFrom([m |-> e, at |-> j, calls |-> c], h, x, w, j + 1)
          ELSE SlicesMaxFuncFrom([st EXCEPT !.calls = c], h, x, w, j + 1)

SlicesMaxFunc(h, x, w, calls0) ==
  IF x.len < 1 THEN [panic |-> TRUE, val |-> Zero, calls |-> calls0]
  ELSE LET r == SlicesMaxFuncFrom([m |-> At(h, x, 0), at |-> 0, calls |-> calls0],
                                  h, x, w, 1)
       IN [panic |-> FALSE, val |-> r.m, calls |-> r.calls]

\* MinMaxFunc whose maximum pass starts at the first element.
MinMaxFuncFromFirst(h, slice, w) ==
  LET lo == SlicesMinFunc(h, slice, w, <<>>)
  IN IF lo.panic
     THEN [panic |-> TRUE, min |-> Zero, max |-> Zero, calls |-> lo.calls]
     ELSE LET hi == SlicesMaxFuncFrom([m |-> At(h, slice, 0), at |-> 0, calls |-> lo.calls],
                                      h, slice, w, 0)
          IN [panic |-> FALSE, min |-> lo.val, max |-> hi.m, calls |-> hi.calls]

MinMaxFunc(h, slice, w) ==
  LET lo == SlicesMinFunc(h, slice, w, <<>>)
  IN IF lo.panic
     THEN [panic |-> TRUE, min |-> Zero, max |-> Zero, calls |-> lo.calls]
     ELSE LET hi == SlicesMaxFunc(h, slice, w, lo.calls)
          IN [panic |-> hi.panic, min |-> lo.val, max |-> hi.val, calls |-> hi.calls]

(***************************************************************************)
(* The caller's arguments.                                                 *)
(***************************************************************************)
Seqs(S, n) == UNION {[1..k -> S] : k \in 0..n}
InputSlices == Seqs(Values, LenBound)
NestedSlices == Seqs(Seqs(Values, MaxInnerLen), MaxInner)
\* The slice that is the whole of backing array a, which holds xs.
Whole(a, xs) == [arr |-> a, off |-> 0, len |-> Len(xs), cap |-> Len(xs)]

Ops == {"Filter", "Map", "Reduce", "LastIndex", "Partition", "GroupBy", "Flatten",
        "Unique", "UniqueBy", "Chunk", "MinMax", "MinMaxFunc"}

ArgsOf(o, s) ==
  CASE o = "Filter"     -> {[slice |-> s, keep |-> p] : p \in [Values -> BOOLEAN]}
    [] o = "Map"        -> {[slice |-> s, f |-> f] : f \in [Values -> Results]}
    [] o = "Reduce"     -> {[slice |-> s, init |-> a, f |-> f] : a \in Inits, f \in Combines}
    [] o = "LastIndex"  -> {[slice |-> s, v |-> v] : v \in Values \cup {Zero}}
    [] o = "Partition"  -> {[slice |-> s, pred |-> p] : p \in [Values -> BOOLEAN]}
    [] o = "GroupBy"    -> {[slice |-> s, keyFunc |-> k] : k \in [Values -> Keys]}
    [] o = "Unique"     -> {[slice |-> s]}
    [] o = "UniqueBy"   -> {[slice |-> s, keyFunc |-> k] : k \in [Values -> Keys]}
    [] o = "Chunk"      -> {[slice |-> s, size |-> n] : n \in MinInt..MaxInt}
    [] o = "MinMax"     -> {[slice |-> s]}
    [] o = "MinMaxFunc" -> {[slice |-> s, less |-> w] : w \in [Values -> Weights]}

Init ==
  /\ pc = "call"
  /\ i = 0
  /\ chunks = <<>>
  /\ ret = NoRet
  /\ calls = <<>>
  /\ op \in Ops
  /\ IF op = "Flatten"
     THEN \E nested \in NestedSlices :
            /\ heap = nested
            /\ snapshot = nested
            /\ arg = [slices |-> [j \in 1..Len(nested) |-> Whole(j, nested[j])]]
     ELSE \E xs \in InputSlices :
            /\ heap = <<xs>>
            /\ snapshot = <<xs>>
            /\ arg \in ArgsOf(op, Whole(1, xs))

\* The caller's input slices, as the call got them.
Inputs == IF op = "Flatten" THEN arg.slices ELSE <<arg.slice>>

(***************************************************************************)
(* The calls.                                                              *)
(***************************************************************************)
Return(h, r, c) ==
  /\ pc' = "returned"
  /\ heap' = h
  /\ ret' = r
  /\ calls' = c
  /\ UNCHANGED <<op, arg, snapshot, i, chunks>>

Panic(c) ==
  /\ pc' = "panicked"
  /\ calls' = c
  /\ UNCHANGED <<heap, op, arg, snapshot, i, chunks, ret>>

CallFilter ==
  /\ pc = "call" /\ op = "Filter"
  /\ LET r == Filter(heap, arg.slice, arg.keep)
     IN Return(r.h, [NoRet EXCEPT !.slices = <<r.out>>], r.calls)

CallMap ==
  /\ pc = "call" /\ op = "Map"
  /\ LET r == Map(heap, arg.slice, arg.f)
     IN Return(r.h, [NoRet EXCEPT !.slices = <<r.out>>], r.calls)

CallReduce ==
  /\ pc = "call" /\ op = "Reduce"
  /\ LET r == Reduce(heap, arg.slice, arg.init, arg.f)
     IN Return(heap, [NoRet EXCEPT !.vals = <<r.acc>>], r.calls)

CallLastIndex ==
  /\ pc = "call" /\ op = "LastIndex"
  /\ Return(heap, [NoRet EXCEPT !.vals = LastIndex(heap, arg.slice, arg.v)], <<>>)

CallPartition ==
  /\ pc = "call" /\ op = "Partition"
  /\ LET r == Partition(heap, arg.slice, arg.pred)
     IN Return(r.h, [NoRet EXCEPT !.slices = <<r.matches, r.nonMatches>>], r.calls)

CallGroupBy ==
  /\ pc = "call" /\ op = "GroupBy"
  /\ LET r == GroupBy(heap, arg.slice, arg.keyFunc)
     IN Return(r.h, [NoRet EXCEPT !.groups = r.out], r.calls)

CallFlatten ==
  /\ pc = "call" /\ op = "Flatten"
  /\ LET r == Flatten(heap, arg.slices)
     IN Return(r.h, [NoRet EXCEPT !.slices = <<r.out>>], <<>>)

CallUnique ==
  /\ pc = "call" /\ op = "Unique"
  /\ LET r == Unique(heap, arg.slice)
     IN Return(r.h, [NoRet EXCEPT !.slices = <<r.unique>>], <<>>)

CallUniqueBy ==
  /\ pc = "call" /\ op = "UniqueBy"
  /\ LET r == UniqueBy(heap, arg.slice, arg.keyFunc)
     IN Return(r.h, [NoRet EXCEPT !.slices = <<r.unique>>], r.calls)

CallMinMax ==
  /\ pc = "call" /\ op = "MinMax"
  /\ LET r == MinMax(heap, arg.slice)
     IN IF r.panic THEN Panic(<<>>)
        ELSE Return(heap, [NoRet EXCEPT !.vals = <<r.min, r.max>>], <<>>)

CallMinMaxFunc ==
  /\ pc = "call" /\ op = "MinMaxFunc"
  /\ LET r == MinMaxFunc(heap, arg.slice, arg.less)
     IN IF r.panic THEN Panic(r.calls)
        ELSE Return(heap, [NoRet EXCEPT !.vals = <<r.min, r.max>>], r.calls)

(***************************************************************************)
(* Chunk, one iteration of its loop per step.                              *)
(***************************************************************************)
\* var chunks [][]T; i := 0
ChunkBegin ==
  /\ pc = "call" /\ op = "Chunk"
  /\ pc' = "loop"
  /\ i' = 0
  /\ chunks' = <<>>
  /\ UNCHANGED <<heap, op, arg, snapshot, ret, calls>>

\* Chunk with a check of its size in front of the loop body: a size that is
\* not positive makes it return what it has.
ChunkIterValidating ==
  /\ pc = "loop"
  /\ i < arg.slice.len
  /\ Len(chunks) < MaxSteps
  /\ LET end == IntMin(Wrap(i + arg.size), arg.slice.len)
     IN IF arg.size <= 0
        THEN /\ pc' = "returned"
             /\ UNCHANGED <<i, chunks>>
        ELSE IF SliceInRange(arg.slice, i, end)
        THEN /\ chunks' = Append(chunks, SubSlice(arg.slice, i, end))
             /\ i' = Wrap(i + arg.size)
             /\ pc' = "loop"
        ELSE /\ pc' = "panicked"
             /\ UNCHANGED <<i, chunks>>
  /\ UNCHANGED <<heap, op, arg, snapshot, ret, calls>>

\* i < len(slice): end := min(i+size, len(slice)); chunks = append(chunks,
\* slice[i:end]); i += size.  The slice expression panics out of range.
ChunkIter ==
  /\ pc = "loop"
  /\ i < arg.slice.len
  /\ Len(chunks) < MaxSteps
  /\ LET end == IntMin(Wrap(i + arg.size), arg.slice.len)
     IN IF SliceInRange(arg.slice, i, end)
        THEN /\ chunks' = Append(chunks, SubSlice(arg.slice, i, end))
             /\ i' = Wrap(i + arg.size)
             /\ pc' = "loop"
        ELSE /\ pc' = "panicked"
             /\ UNCHANGED <<i, chunks>>
  /\ UNCHANGED <<heap, op, arg, snapshot, ret, calls>>

\* i >= len(slice): return chunks
ChunkReturn ==
  /\ pc = "loop"
  /\ i >= arg.slice.len
  /\ pc' = "returned"
  /\ ret' = [NoRet EXCEPT !.slices = chunks]
  /\ UNCHANGED <<heap, op, arg, snapshot, i, chunks, calls>>

(***************************************************************************)
(* The caller, after the call returned: it owns the slices it got back.    *)
(***************************************************************************)
Returned ==
  {ret.slices[k] : k \in DOMAIN ret.slices} \cup {ret.groups[k] : k \in DOMAIN ret.groups}

\* s[j] = Zero
CallerWrite ==
  /\ pc = "returned"
  /\ \E s \in Returned : \E j \in 0..(s.len - 1) :
       heap' = [heap EXCEPT ![s.arr][s.off + j + 1] = Zero]
  /\ pc' = "written"
  /\ UNCHANGED <<op, arg, snapshot, i, chunks, ret, calls>>

\* _ = append(s, Zero)
CallerAppend ==
  /\ pc = "returned"
  /\ \E s \in Returned : heap' = AppendOne(heap, s, Zero).h
  /\ pc' = "written"
  /\ UNCHANGED <<op, arg, snapshot, i, chunks, ret, calls>>

Next ==
  \/ CallFilter \/ CallMap \/ CallReduce \/ CallLastIndex \/ CallPartition
  \/ CallGroupBy \/ CallFlatten \/ CallUnique \/ CallUniqueBy
  \/ CallMinMax \/ CallMinMaxFunc
  \/ ChunkBegin \/ ChunkIter \/ ChunkReturn
  \/ CallerWrite \/ CallerAppend

Spec == Init /\ [][Next]_vars

(***************************************************************************)
(* Helpers of the properties.                                              *)
(***************************************************************************)
Range(s) == {s[j] : j \in DOMAIN s}

RECURSIVE Concat(_)
Concat(ss) == IF ss = <<>> THEN <<>> ELSE Head(ss) \o Concat(Tail(ss))

\* The elements of s at the positions (from 1) in I, in the order of s.
RECURSIVE SelectIdx(_, _, _)
SelectIdx(s, I, j) ==
  IF j > Len(s) THEN <<>>
  ELSE (IF j \in I THEN <<s[j]>> ELSE <<>>) \o SelectIdx(s, I, j + 1)

\* The contents of the slices Chunk returned.
ChunkElems == [k \in DOMAIN ret.slices |-> Elems(heap, ret.slices[k])]

(***************************************************************************)
(* C1: for every slice s and every size n > 0, Chunk(s, n) returns chunks  *)
(* whose concatenation in order is s; every chunk but the last is exactly  *)
(* n long, the last is 1 to n long, and an empty s gives no chunk.         *)
(***************************************************************************)
C1_ChunkContract ==
  (op = "Chunk" /\ arg.size > 0) =>
    /\ pc # "panicked"
    /\ pc = "returned" =>
         LET n == Len(ret.slices) IN
         /\ Concat(ChunkElems) = snapshot[1]
         /\ \A k \in 1..(n - 1) : ret.slices[k].len = arg.size
         /\ n > 0 => ret.slices[n].len \in 1..arg.size
         /\ snapshot[1] = <<>> => n = 0

\* The same for the calls in which i+size stays within int.
C1_ChunkContractInRange ==
  (op = "Chunk" /\ arg.size > 0 /\ arg.slice.len + arg.size <= MaxInt) =>
    /\ pc # "panicked"
    /\ pc = "returned" =>
         LET n == Len(ret.slices) IN
         /\ Concat(ChunkElems) = snapshot[1]
         /\ \A k \in 1..(n - 1) : ret.slices[k].len = arg.size
         /\ n > 0 => ret.slices[n].len \in 1..arg.size
         /\ snapshot[1] = <<>> => n = 0

(***************************************************************************)
(* C4: what an operation returns shares no storage with its input: after   *)
(* Filter, Map, Partition, Flatten, Unique, UniqueBy, GroupBy or Chunk     *)
(* returned, overwriting or appending to a returned slice (each chunk of   *)
(* Chunk included) leaves every element of the input unchanged.            *)
(***************************************************************************)
C4_NoSharedStorage ==
  pc = "written" => \A k \in DOMAIN Inputs : Elems(heap, Inputs[k]) = snapshot[k]

\* The same for every operation but Chunk.
C4_NoSharedStorageButChunk ==
  (pc = "written" /\ op # "Chunk") =>
    \A k \in DOMAIN Inputs : Elems(heap, Inputs[k]) = snapshot[k]

C10_ZeroLoopsInv ==
  (op = "Chunk" /\ arg.slice.len > 0) =>
    /\ arg.size = 0 =>
         /\ pc \in {"call", "loop"}
         /\ i = 0
         /\ \A k \in DOMAIN chunks : chunks[k].len = 0
    /\ arg.size < 0 =>
         /\ pc \in {"call", "loop", "panicked"}
         /\ i = 0
         /\ chunks = <<>>

\* How such a call leaves its loop: only with a negative size, by the panic.
C10_ZeroLoopsStep ==
  (op = "Chunk" /\ arg.slice.len > 0 /\ pc = "loop" /\ pc' # pc) =>
    /\ arg.size # 0
    /\ arg.size < 0 => pc' = "panicked"

Leq(a, b) == IF op = "MinMax" THEN a <= b ELSE Less(arg.less, a, b) <= 0

(***************************************************************************)
(* C2: for a non-empty slice, MinMax and MinMaxFunc return (min, max),     *)
(* both elements of the slice, with min <= e <= max under the ordering for *)
(* every element e.                                                        *)
(***************************************************************************)
C2_MinMaxBounds ==
  (op \in {"MinMax", "MinMaxFunc"} /\ arg.slice.len > 0 /\ pc # "call") =>
    /\ pc = "returned"
    /\ Len(ret.vals) = 2
    /\ ret.vals[1] \in Range(snapshot[1])
    /\ ret.vals[2] \in Range(snapshot[1])
    /\ \A e \in Range(snapshot[1]) : Leq(ret.vals[1], e) /\ Leq(e, ret.vals[2])

\* The comparator reverses the natural order, and neither extremum is first.
C2_Witness ==
  /\ op = "MinMaxFunc" /\ pc = "returned"
  /\ arg.less[1] > arg.less[2] /\ arg.less[2] > arg.less[3]
  /\ ret.vals = <<3, 1>>
  /\ snapshot[1][1] = 2

(***************************************************************************)
(* C3: MinMax and MinMaxFunc on an empty slice end in a panic; neither     *)
(* returns a value.                                                        *)
(***************************************************************************)
C3_EmptyPanics ==
  (op \in {"MinMax", "MinMaxFunc"} /\ arg.slice.len = 0 /\ pc # "call") =>
    /\ pc = "panicked"
    /\ ret = NoRet

\* MinMax was called on an empty slice and panicked.
C3_Witness ==
  /\ op = "MinMax" /\ arg.slice.len = 0 /\ pc = "panicked"

\* The key of the call, and the positions of s that hold the first element
\* of their key.
IdKey == [v \in Values |-> v]
KeyOfCall == IF op = "Unique" THEN IdKey ELSE arg.keyFunc
FirstOfKey(s, k) == {a \in DOMAIN s : \A b \in 1..(a - 1) : k[s[b]] # k[s[a]]}

(***************************************************************************)
(* C5: UniqueBy(s, k) is, in input order, exactly the elements s[i] with   *)
(* no earlier s[j] of the same key; Unique(s) is the same with k the       *)
(* identity.                                                               *)
(***************************************************************************)
C5_UniqueFirstOfEachKey ==
  (op \in {"Unique", "UniqueBy"} /\ pc = "returned") =>
    Elems(heap, ret.slices[1])
      = SelectIdx(snapshot[1], FirstOfKey(snapshot[1], KeyOfCall), 1)

\* Two different elements share a key, and the later one is dropped.
C5_Witness ==
  /\ op = "UniqueBy" /\ pc = "returned"
  /\ Len(snapshot[1]) >= 3
  /\ Elems(heap, ret.slices[1]) = <<3, 2>>
  /\ 1 \in Range(snapshot[1])

\* The elements Filter returns for s and keep.
FilterOf(s, keep) ==
  LET r == Filter(<<s>>, Whole(1, s), keep) IN Elems(r.h, r.out)

(***************************************************************************)
(* C6: with (matches, nonMatches) = Partition(s, p), matches is            *)
(* Filter(s, p) and nonMatches is Filter(s, not p); their lengths add up   *)
(* to len(s).                                                              *)
(***************************************************************************)
C6_PartitionIsTwoFilters ==
  (op = "Partition" /\ pc = "returned") =>
    LET s == snapshot[1]
        matches == Elems(heap, ret.slices[1])
        nonMatches == Elems(heap, ret.slices[2])
    IN /\ matches = FilterOf(s, arg.pred)
       /\ nonMatches = FilterOf(s, [v \in Values |-> ~arg.pred[v]])
       /\ Len(matches) + Len(nonMatches) = Len(s)

\* Both parts hold two elements or more, and the first two elements part.
C6_Witness ==
  /\ op = "Partition" /\ pc = "returned"
  /\ ret.slices[1].len >= 2 /\ ret.slices[2].len >= 2
  /\ snapshot[1][1] # snapshot[1][2]
  /\ arg.pred[snapshot[1][1]] # arg.pred[snapshot[1][2]]

(***************************************************************************)
(* C7: GroupBy(s, k) is a map whose keys are exactly the k(e) of the       *)
(* elements e of s, and whose group of key K is the elements of s with     *)
(* k(e) = K, in input order; no group is empty.                            *)
(***************************************************************************)
C7_GroupByGroups ==
  (op = "GroupBy" /\ pc = "returned") =>
    LET s == snapshot[1] IN
    /\ DOMAIN ret.groups = {arg.keyFunc[e] : e \in Range(s)}
    /\ \A K \in DOMAIN ret.groups :
         /\ Elems(heap, ret.groups[K])
              = SelectIdx(s, {a \in DOMAIN s : arg.keyFunc[s[a]] = K}, 1)
         /\ ret.groups[K].len > 0

\* Two groups, interleaved in the input.
C7_Witness ==
  /\ op = "GroupBy" /\ pc = "returned"
  /\ DOMAIN ret.groups = Keys
  /\ Elems(heap, ret.groups["a"]) = <<1, 3, 1>>
  /\ Elems(heap, ret.groups["b"]) = <<2, 2>>
  /\ snapshot[1] = <<1, 2, 3, 2, 1>>

(***************************************************************************)
(* C8: LastIndex(s, v) is (i, true) with i the highest index at which v    *)
(* occurs in s, and (-1, false) when v does not occur, an empty s          *)
(* included.                                                               *)
(***************************************************************************)
C8_LastIndexHighest ==
  (op = "LastIndex" /\ pc = "returned") =>
    LET s == snapshot[1]
        occ == {j \in 0..(Len(s) - 1) : s[j + 1] = arg.v}
    IN IF occ = {} THEN ret.vals = <<-1, FALSE>>
       ELSE /\ ret.vals[2] = TRUE
            /\ ret.vals[1] \in occ
            /\ \A j \in occ : j <= ret.vals[1]

\* v occurs twice, and not in the last place.
C8_Witness ==
  /\ op = "LastIndex" /\ pc = "returned"
  /\ ret.vals = <<2, TRUE>>
  /\ snapshot[1][1] = arg.v
  /\ Len(snapshot[1]) >= 4

\* The callback of the one-callback-per-element functions.
CallbackOf ==
  CASE op = "Filter" -> "keep"
    [] op = "Map" -> "f"
    [] op = "Partition" -> "pred"
    [] op \in {"GroupBy", "UniqueBy"} -> "keyFunc"

\* One call per element, on the elements in input order.
OncePerElement ==
  op \in {"Filter", "Map", "Partition", "GroupBy", "UniqueBy"} =>
    calls = [j \in DOMAIN snapshot[1] |-> Call(CallbackOf, <<snapshot[1][j]>>, <<j - 1>>)]

\* One call per element from left to right, each on the result of the one before.
ReduceLeftToRight ==
  op = "Reduce" =>
    /\ Len(calls) = Len(snapshot[1])
    /\ \A j \in DOMAIN calls :
         /\ calls[j].fn = "f"
         /\ calls[j].at = <<j - 1>>
         /\ calls[j].args[2] = snapshot[1][j]
         /\ calls[j].args[1] = IF j = 1 THEN arg.init
                               ELSE Combine(arg.f, calls[j - 1].args[1], calls[j - 1].args[2])
    /\ ret.vals[1] = IF calls = <<>> THEN arg.init
                     ELSE Combine(arg.f, calls[Len(calls)].args[1], calls[Len(calls)].args[2])

\* No pair of elements is handed to the comparator twice.
OncePerPair ==
  op = "MinMaxFunc" =>
    \A a, b \in DOMAIN calls : a # b => calls[a].at # calls[b].at

(***************************************************************************)
(* C9: within one call every callback is called exactly once per relevant  *)
(* element, in input order: the predicate, transform or key function of    *)
(* Filter, Partition, Map, GroupBy and UniqueBy once per element, the      *)
(* combine function of Reduce once per element from left to right, and the *)
(* comparator of MinMaxFunc exactly once per compared pair of elements.    *)
(***************************************************************************)
C9_CallbacksOnce ==
  pc = "returned" => OncePerElement /\ ReduceLeftToRight /\ OncePerPair

\* MinMaxFunc: a minimum pass and then a maximum pass, each one call per
\* element after the first, against an earlier element.
TwoPasses ==
  op = "MinMaxFunc" =>
    LET s == snapshot[1]
        n == Len(s)
    IN /\ Len(calls) = 2 * (n - 1)
       /\ \A j \in 1..(n - 1) : \A pass \in {0, 1} :
            LET c == calls[pass * (n - 1) + j] IN
            /\ c.fn = "less"
            /\ c.at[1] = j
            /\ c.at[2] \in 0..(j - 1)
            /\ c.args = <<s[j + 1], s[c.at[2] + 1]>>
       /\ n >= 2 => calls[1].at = calls[n].at

(***************************************************************************)
(* C9, amended: as C9 for Filter, Partition, Map, GroupBy, UniqueBy and    *)
(* Reduce; MinMaxFunc on n >= 1 elements calls its comparator 2(n-1)       *)
(* times: for each element after the first, in input order, once against   *)
(* the minimum so far, and then again for each element after the first,    *)
(* once against the maximum so far. A pair of elements can so be compared  *)
(* twice (the second and the first element always are).                    *)
(***************************************************************************)
C9_CallbacksOncePerPass ==
  pc = "returned" => OncePerElement /\ ReduceLeftToRight /\ TwoPasses

\* A pair is compared in both passes, and another pair in one only.
C9_Witness ==
  /\ op = "MinMaxFunc" /\ pc = "returned"
  /\ Len(snapshot[1]) >= 3
  /\ calls[1].at = calls[Len(snapshot[1])].at
  /\ calls[2].at # calls[Len(snapshot[1]) + 1].at

====
